---- MODULE Spec2Model ----
(***************************************************************************)
(* BlogSpace (blog_app_supabase.py): the data-access functions over the    *)
(* four store tables (users, posts, comments, likes), the per-session      *)
(* state of the Streamlit script, the sidebar, the page controllers and    *)
(* the router main().                                                      *)
(*                                                                         *)
(* Store rows keep the columns the functions read or write.  created_at is *)
(* not kept: rows are created one insert at a time and ids are serial, so  *)
(* "order by created_at" is order by id.  The users(username) join of the  *)
(* post and comment selects only feeds rendering and is not kept either.   *)
(* A store round trip may raise (network error, constraint violation):     *)
(* every data-access operator takes err, TRUE when the round trip raises.  *)
(***************************************************************************)
EXTENDS Integers, Sequences, FiniteSets, TLC

\* ------------------------------------------------------------------ bounds
\* how many of add_sample_data's user rows / post rows the store starts with
SampleUserCount == 1
SamplePostCount == 1
\* rows ever inserted into each table, and the largest view count explored
MaxUsers == 2
MaxPosts == 2
MaxComments == 2
MaxLikes == 2
MaxViews == 2
\* comments ever inserted where threads of replies are explored
MaxThread == 3

\* ------------------------------------------------------------------ values
\* Python None for an id column or an id held in session state
None == 0
\* Python None for session_state.username / email
NoName == "<None>"

Sessions == {"s1", "s2"}

C50 == "Streamlit is an amazing framework for building dat"
C49 == "Streamlit is an amazing framework for building da"
Usernames == {"john_doe", "alice"}
Emails == {"alice@x.com", "alice.x.com"}
Passwords == {"password123", "secret1", "secret9", "wrong"}
Titles == {"Hello", " "}
Contents == {C50, C49}

\* hash_password: a digest of the password.  The digest space is narrower
\* than the password space, so two passwords may share a digest.
hash_password(password) ==
    CASE password = "password123" -> "ef92b7"
      [] password = "secret1" -> "5b11c6"
      [] password = "secret9" -> "5b11c6"
      [] password = "wrong" -> "8810ad"
      [] password = "letmein" -> "1c8bfe"
      [] OTHER -> "e3b0c4"

VARIABLES
    users, posts, comments, likes,  \* the store's tables: sets of rows
    next_id,      \* the serial id the store gives the next row of each table
    session,      \* st.session_state of each browser session
    run,          \* where each session's script run stands
    dispatched,   \* the controller main() dispatched last in each session
    done          \* per post id: increment_view_count calls that wrote

vars == <<users, posts, comments, likes, next_id, session, run, dispatched, done>>

\* ------------------------------------------------------------ sample data
SampleUserRows ==
    << [username |-> "john_doe", email |-> "john@example.com", password |-> hash_password("password123"), bio |-> "Tech enthusiast and blogger"],
       [username |-> "jane_smith", email |-> "jane@example.com", password |-> hash_password("password123"), bio |-> "Travel writer and photographer"],
       [username |-> "alex_coding", email |-> "alex@example.com", password |-> hash_password("password123"), bio |-> "Software engineer and open source contributor"] >>

SamplePostRows ==
    << [user_id |-> 1, title |-> "Getting Started with Streamlit", content |-> C50, category |-> "Technology", views |-> 0],
       [user_id |-> 2, title |-> "Top 10 Travel Destinations in 2025", content |-> C50, category |-> "Travel", views |-> 0],
       [user_id |-> 1, title |-> "Python Tips and Tricks", content |-> C50, category |-> "Technology", views |-> 0] >>

WithId(row, id) == [k \in DOMAIN row \cup {"id"} |-> IF k = "id" THEN id ELSE row[k]]

\* the tables after add_sample_data ran against an empty store
add_sample_data ==
    [users |-> {WithId(SampleUserRows[i], i) : i \in 1..SampleUserCount},
     posts |-> {WithId(SamplePostRows[i], i) : i \in 1..SamplePostCount}]

\* ---------------------------------------------------------------- helpers
Ids(table) == {r.id : r \in table}
Row(table, id) == CHOOSE r \in table : r.id = id

RECURSIVE Ascending(_)
Ascending(rows) ==
    IF rows = {} THEN <<>>
    ELSE LET first == CHOOSE r \in rows : \A q \in rows : r.id <= q.id
         IN <<first>> \o Ascending(rows \ {first})

RECURSIVE Descending(_)
Descending(rows) ==
    IF rows = {} THEN <<>>
    ELSE LET first == CHOOSE r \in rows : \A q \in rows : r.id >= q.id
         IN <<first>> \o Descending(rows \ {first})

Range(seq) == {seq[i] : i \in 1..Len(seq)}

\* ------------------------------------------------------------ users table
NoUser == [id |-> None, username |-> NoName, email |-> NoName]

\* create_user storing the password as given instead of its digest
create_user_plaintext(username, email, password, bio, err) ==
    LET row == [id |-> Cardinality(users) + 1, username |-> username,
                email |-> email, password |-> password, bio |-> bio]
    IN IF err \/ \E u \in users : u.username = username
       THEN [ret |-> FALSE, users |-> users]
       ELSE [ret |-> TRUE, users |-> users \cup {row}]

\* create_user over a users table without the unique constraint on username
create_user_unconstrained(username, email, password, bio, err) ==
    LET hashed_pw == hash_password(password)
        row == [id |-> Cardinality(users) + 1, username |-> username,
                email |-> email, password |-> hashed_pw, bio |-> bio]
    IN IF err
       THEN [ret |-> FALSE, users |-> users]
       ELSE [ret |-> TRUE, users |-> users \cup {row}]

\* insert into users; the store raises when the username is already there
create_user(username, email, password, bio, err) ==
    LET hashed_pw == hash_password(password)
        row == [id |-> Cardinality(users) + 1, username |-> username,
                email |-> email, password |-> hashed_pw, bio |-> bio]
    IN IF err \/ \E u \in users : u.username = username
       THEN [ret |-> FALSE, users |-> users]
       ELSE [ret |-> TRUE, users |-> users \cup {row}]

authenticate_user(username, password, err) ==
    LET hashed_pw == hash_password(password)
        data == Ascending({u \in users : u.username = username /\ u.password = hashed_pw})
    IN IF ~err /\ Len(data) > 0
       THEN [id |-> data[1].id, username |-> data[1].username, email |-> data[1].email]
       ELSE NoUser

get_user_by_id(user_id, err) ==
    IF ~err /\ user_id \in Ids(users)
    THEN [k \in {"id", "username", "email", "bio"} |-> Row(users, user_id)[k]]
    ELSE [id |-> None]

update_user_profile(user_id, email, bio, err) ==
    IF err
    THEN [ret |-> FALSE, users |-> users]
    ELSE [ret |-> TRUE,
          users |-> {IF u.id = user_id THEN [u EXCEPT !.email = email, !.bio = bio] ELSE u
                     : u \in users}]

\* change_password proceeding to its update whatever the stored digest is
change_password_select_unverified(user_id, old_password, err) ==
    ~err /\ user_id \in Ids(users)

\* change_password, line 97-98: select password where id = user_id and
\* compare it with the digest of old_password; TRUE when the update follows.
\* (The get_user_by_id of line 92 catches its own errors and its result is
\* not used.)
change_password_select(user_id, old_password, err) ==
    LET old_hashed == hash_password(old_password)
    IN /\ ~err
       /\ user_id \in Ids(users)
       /\ Row(users, user_id).password = old_hashed

\* change_password, line 99-100: update password where id = user_id
change_password_update(user_id, new_password, err) ==
    LET new_hashed == hash_password(new_password)
    IN IF err
       THEN [ret |-> FALSE, users |-> users]
       ELSE [ret |-> TRUE,
             users |-> {IF u.id = user_id THEN [u EXCEPT !.password = new_hashed] ELSE u
                        : u \in users}]

\* ------------------------------------------------------------ posts table
\* create_post counting the insert as the first view
create_post_viewed(user_id, title, content, category, err) ==
    LET row == [id |-> next_id.posts, user_id |-> user_id, title |-> title,
                content |-> content, category |-> category, views |-> 1]
    IN IF err
       THEN [ret |-> None, posts |-> posts]
       ELSE [ret |-> row.id, posts |-> posts \cup {row}]

create_post(user_id, title, content, category, err) ==
    LET row == [id |-> next_id.posts, user_id |-> user_id, title |-> title,
                content |-> content, category |-> category, views |-> 0]
    IN IF err
       THEN [ret |-> None, posts |-> posts]
       ELSE [ret |-> row.id, posts |-> posts \cup {row}]

get_all_posts(err) == IF err THEN <<>> ELSE Descending(posts)

get_post_by_id(post_id, err) ==
    IF ~err /\ post_id \in Ids(posts) THEN Row(posts, post_id) ELSE [id |-> None]

\* get_user_posts without its eq("user_id", user_id) filter
get_user_posts_unfiltered(user_id, err) ==
    IF err THEN <<>> ELSE Descending(posts)

get_user_posts(user_id, err) ==
    IF err THEN <<>> ELSE Descending({p \in posts : p.user_id = user_id})

update_post(post_id, title, content, category, err) ==
    IF err
    THEN [ret |-> FALSE, posts |-> posts]
    ELSE [ret |-> TRUE,
          posts |-> {IF p.id = post_id
                     THEN [p EXCEPT !.title = title, !.content = content, !.category = category]
                     ELSE p : p \in posts}]

\* delete_post without its delete on the likes table
delete_post_keeps_likes(post_id, err_at) ==
    [ret |-> err_at = 0,
     comments |-> IF err_at = 1 THEN comments
                  ELSE {c \in comments : c.post_id # post_id},
     likes |-> likes,
     posts |-> IF err_at # 0 THEN posts
               ELSE {p \in posts : p.id # post_id}]

\* delete_post with the three deletes in the order post, comments, likes
delete_post_post_first(post_id, err_at) ==
    [ret |-> err_at = 0,
     posts |-> IF err_at = 1 THEN posts
               ELSE {p \in posts : p.id # post_id},
     comments |-> IF err_at \in {1, 2} THEN comments
                  ELSE {c \in comments : c.post_id # post_id},
     likes |-> IF err_at # 0 THEN likes
               ELSE {l \in likes : l.post_id # post_id}]

\* delete_post: three deletes in a row; err_at = k (1..3) when the k-th
\* delete raises, 0 when none does.  The deletes before the k-th are done.
delete_post(post_id, err_at) ==
    [ret |-> err_at = 0,
     comments |-> IF err_at = 1 THEN comments
                  ELSE {c \in comments : c.post_id # post_id},
     likes |-> IF err_at \in {1, 2} THEN likes
               ELSE {l \in likes : l.post_id # post_id},
     posts |-> IF err_at # 0 THEN posts
               ELSE {p \in posts : p.id # post_id}]

\* increment_view_count, first round trip: select views where id = post_id
increment_view_count_select(post_id, err) ==
    IF ~err /\ post_id \in Ids(posts)
    THEN [data |-> TRUE, current_views |-> Row(posts, post_id).views]
    ELSE [data |-> FALSE, current_views |-> 0]

\* increment_view_count as one atomic views = views + 1 in the store
increment_view_count_update_atomic(post_id, current_views, err) ==
    IF err THEN posts
    ELSE {IF p.id = post_id THEN [p EXCEPT !.views = @ + 1] ELSE p : p \in posts}

\* the update of increment_view_count without its eq("id", post_id) filter
increment_view_count_update_unfiltered(post_id, current_views, err) ==
    IF err THEN posts
    ELSE {[p EXCEPT !.views = current_views + 1] : p \in posts}

\* increment_view_count, second round trip: update views where id = post_id
increment_view_count_update(post_id, current_views, err) ==
    IF err THEN posts
    ELSE {IF p.id = post_id THEN [p EXCEPT !.views = current_views + 1] ELSE p : p \in posts}

\* --------------------------------------------------------- comments table
add_comment(post_id, user_id, content, parent_id, err) ==
    LET row == [id |-> next_id.comments, post_id |-> post_id, user_id |-> user_id,
                content |-> content, parent_id |-> parent_id]
    IN IF err
       THEN [ret |-> None, comments |-> comments]
       ELSE [ret |-> row.id, comments |-> comments \cup {row}]

get_comments(post_id, err) ==
    IF err THEN <<>> ELSE Ascending({c \in comments : c.post_id = post_id})

\* get_comment_count without its is_("parent_id", "null") filter
get_comment_count_all(post_id, err) ==
    IF err THEN 0
    ELSE Cardinality({c \in comments : c.post_id = post_id})

get_comment_count(post_id, err) ==
    IF err THEN 0
    ELSE Cardinality({c \in comments : c.post_id = post_id /\ c.parent_id = None})

\* page_view_post, line 691-693: the comments of the post that have no parent
main_comments(listed) == SelectSeq(listed, LAMBDA c : c.parent_id = None)

\* the replies of a comment taken to be every comment that has a parent
replies_any_parent(listed, comment_id) == SelectSeq(listed, LAMBDA c : c.parent_id # None)

\* page_view_post, line 707: the comments whose parent is the given comment
replies(listed, comment_id) == SelectSeq(listed, LAMBDA c : c.parent_id = comment_id)

\* page_view_post, line 695-730: each main comment, then its replies
RECURSIVE render_comments(_, _)
render_comments(roots, listed) ==
    IF roots = <<>> THEN <<>>
    ELSE <<Head(roots)>> \o replies(listed, Head(roots).id)
         \o render_comments(Tail(roots), listed)

\* the comments page_view_post writes to the page for a post, in page order
rendered_comments(post_id) ==
    LET listed == get_comments(post_id, FALSE)
    IN render_comments(main_comments(listed), listed)

\* ------------------------------------------------------------ likes table
\* add_like over a likes table that keeps (post_id, user_id) unique
add_like_unique(post_id, user_id, err) ==
    LET row == [id |-> next_id.likes, post_id |-> post_id, user_id |-> user_id]
    IN IF err
       THEN [ret |-> FALSE, likes |-> likes]
       ELSE IF \E l \in likes : l.post_id = post_id /\ l.user_id = user_id
            THEN [ret |-> TRUE, likes |-> likes]
            ELSE [ret |-> TRUE, likes |-> likes \cup {row}]

add_like(post_id, user_id, err) ==
    LET row == [id |-> next_id.likes, post_id |-> post_id, user_id |-> user_id]
    IN IF err
       THEN [ret |-> FALSE, likes |-> likes]
       ELSE [ret |-> TRUE, likes |-> likes \cup {row}]

remove_like(post_id, user_id, err) ==
    IF err
    THEN [ret |-> FALSE, likes |-> likes]
    ELSE [ret |-> TRUE,
          likes |-> {l \in likes : ~(l.post_id = post_id /\ l.user_id = user_id)}]

get_like_count(post_id, err) ==
    IF err THEN 0 ELSE Cardinality({l \in likes : l.post_id = post_id})

check_user_liked(post_id, user_id, err) ==
    IF err THEN FALSE
    ELSE Cardinality({l \in likes : l.post_id = post_id /\ l.user_id = user_id}) > 0

\* ---------------------------------------------------------- session state
\* session_state has no edit_post_id attribute until page_my_posts sets it
Unset == -1

InitialSession ==
    [logged_in |-> FALSE, user_id |-> None, username |-> NoName, email |-> NoName,
     page |-> "home", selected_post_id |-> None, edit_post_id |-> Unset]

Idle == [pc |-> "idle"]
Rerun == [pc |-> "rerun"]
\* a script run that no widget triggered
NoEvent == [widget |-> "none"]

Init ==
    /\ users = add_sample_data.users
    /\ posts = add_sample_data.posts
    /\ comments = {}
    /\ likes = {}
    /\ next_id = [posts |-> SamplePostCount + 1, comments |-> 1, likes |-> 1]
    /\ session = [s \in Sessions |-> InitialSession]
    /\ run = [s \in Sessions |-> Idle]
    /\ dispatched = [s \in Sessions |-> [requested |-> "none", controller |-> "none", logged_in |-> FALSE]]
    /\ done = [p \in 1..MaxPosts |-> 0]

\* ------------------------------------------- direct calls of the data layer
\* One caller thread, "s1", calls the data-access functions one after
\* another: a call starts only when the previous one has returned.
Caller == "s1"
Bios == {"", "hello", "writer"}
TextInputs == {<<"Hello", C50>>, <<" ", C49>>}

CallCreateUser(username, email, password, bio, err) ==
    /\ run[Caller].pc = "idle"
    /\ Cardinality(users) < MaxUsers \/ ~create_user(username, email, password, bio, err).ret
    /\ users' = create_user(username, email, password, bio, err).users
    /\ UNCHANGED <<posts, comments, likes, next_id, session, run, dispatched, done>>

CallUpdateUserProfile(user_id, email, bio, err) ==
    /\ run[Caller].pc = "idle"
    /\ users' = update_user_profile(user_id, email, bio, err).users
    /\ UNCHANGED <<posts, comments, likes, next_id, session, run, dispatched, done>>

CallCreatePost(user_id, title, content, category, err) ==
    /\ run[Caller].pc = "idle"
    /\ next_id.posts <= MaxPosts
    /\ posts' = create_post(user_id, title, content, category, err).posts
    /\ next_id' = IF err THEN next_id ELSE [next_id EXCEPT !.posts = @ + 1]
    /\ UNCHANGED <<users, comments, likes, session, run, dispatched, done>>

CallUpdatePost(post_id, title, content, category, err) ==
    /\ run[Caller].pc = "idle"
    /\ posts' = update_post(post_id, title, content, category, err).posts
    /\ UNCHANGED <<users, comments, likes, next_id, session, run, dispatched, done>>

CallDeletePost(post_id, err_at) ==
    /\ run[Caller].pc = "idle"
    /\ comments' = delete_post(post_id, err_at).comments
    /\ likes' = delete_post(post_id, err_at).likes
    /\ posts' = delete_post(post_id, err_at).posts
    /\ UNCHANGED <<users, next_id, session, run, dispatched, done>>

\* increment_view_count up to the answer of its select
CallIncrementSelect(post_id, err) ==
    /\ run[Caller].pc = "idle"
    /\ done[post_id] < MaxViews
    /\ LET response == increment_view_count_select(post_id, err)
       IN run' = [run EXCEPT ![Caller] =
                    IF response.data
                    THEN [pc |-> "increment", post_id |-> post_id,
                          current_views |-> response.current_views, event |-> NoEvent]
                    ELSE Idle]
    /\ UNCHANGED <<users, posts, comments, likes, next_id, session, dispatched, done>>

\* increment_view_count from its update to its return
CallIncrementUpdate(err) ==
    /\ run[Caller].pc = "increment"
    /\ posts' = increment_view_count_update(run[Caller].post_id, run[Caller].current_views, err)
    /\ done' = IF err THEN done ELSE [done EXCEPT ![run[Caller].post_id] = @ + 1]
    /\ run' = [run EXCEPT ![Caller] = Idle]
    /\ UNCHANGED <<users, comments, likes, next_id, session, dispatched>>

CallAddComment(post_id, user_id, content, parent_id, err) ==
    /\ run[Caller].pc = "idle"
    /\ next_id.comments <= MaxComments
    /\ comments' = add_comment(post_id, user_id, content, parent_id, err).comments
    /\ next_id' = IF err THEN next_id ELSE [next_id EXCEPT !.comments = @ + 1]
    /\ UNCHANGED <<users, posts, likes, session, run, dispatched, done>>

CallAddLike(post_id, user_id, err) ==
    /\ run[Caller].pc = "idle"
    /\ next_id.likes <= MaxLikes
    /\ likes' = add_like(post_id, user_id, err).likes
    /\ next_id' = IF err THEN next_id ELSE [next_id EXCEPT !.likes = @ + 1]
    /\ UNCHANGED <<users, posts, comments, session, run, dispatched, done>>

CallRemoveLike(post_id, user_id, err) ==
    /\ run[Caller].pc = "idle"
    /\ likes' = remove_like(post_id, user_id, err).likes
    /\ UNCHANGED <<users, posts, comments, next_id, session, run, dispatched, done>>

\* add_comment in a store explored up to MaxThread comments
CallAddCommentInThread(post_id, user_id, parent_id, err) ==
    /\ run[Caller].pc = "idle"
    /\ next_id.comments <= MaxThread
    /\ comments' = add_comment(post_id, user_id, "nice", parent_id, err).comments
    /\ next_id' = IF err THEN next_id ELSE [next_id EXCEPT !.comments = @ + 1]
    /\ UNCHANGED <<users, posts, likes, session, run, dispatched, done>>

\* comments, replies and replies to replies by user 1 on posts that are
\* created and deleted
NextThreads ==
    \/ \E err \in BOOLEAN :
          CallCreatePost(1, "Hello", C50, "Technology", err)
    \/ \E post_id \in Ids(posts), err_at \in 0..3 :
          CallDeletePost(post_id, err_at)
    \/ \E post_id \in Ids(posts), parent_id \in Ids(comments) \cup {None}, err \in BOOLEAN :
          CallAddCommentInThread(post_id, 1, parent_id, err)

SpecThreads == Init /\ [][NextThreads]_vars

\* what each data-access function returns when its first store round trip
\* raises; user 1 and post 1 are sample rows
FailingCalls ==
    {"create_user", "authenticate_user", "get_user_by_id", "update_user_profile",
     "change_password", "create_post", "get_all_posts", "get_post_by_id",
     "get_user_posts", "update_post", "delete_post", "add_comment", "get_comments",
     "add_like", "remove_like", "get_like_count", "get_comment_count"}

Failing(fn) ==
    CASE fn = "create_user" -> create_user("alice", "alice@x.com", "secret1", "", TRUE).ret
      [] fn = "authenticate_user" -> authenticate_user("john_doe", "password123", TRUE)
      [] fn = "get_user_by_id" -> get_user_by_id(1, TRUE)
      [] fn = "update_user_profile" -> update_user_profile(1, "alice@x.com", "", TRUE).ret
      [] fn = "change_password" -> change_password_select(1, "password123", TRUE)
      [] fn = "create_post" -> create_post(1, "Hello", C50, "Technology", TRUE).ret
      [] fn = "get_all_posts" -> get_all_posts(TRUE)
      [] fn = "get_post_by_id" -> get_post_by_id(1, TRUE)
      [] fn = "get_user_posts" -> get_user_posts(1, TRUE)
      [] fn = "update_post" -> update_post(1, "Hello", C50, "Technology", TRUE).ret
      [] fn = "delete_post" -> delete_post(1, 1).ret
      [] fn = "add_comment" -> add_comment(1, 1, "nice", None, TRUE).ret
      [] fn = "get_comments" -> get_comments(1, TRUE)
      [] fn = "add_like" -> add_like(1, 1, TRUE).ret
      [] fn = "remove_like" -> remove_like(1, 1, TRUE).ret
      [] fn = "get_like_count" -> get_like_count(1, TRUE)
      [] fn = "get_comment_count" -> get_comment_count(1, TRUE)

\* a call on which the store raises at once: nothing is written, the caller
\* gets the function's failure value
CallFailing(fn) ==
    /\ run[Caller].pc = "idle"
    /\ run' = [run EXCEPT ![Caller] = [pc |-> "idle", call |-> fn, ret |-> Failing(fn)]]
    /\ UNCHANGED <<users, posts, comments, likes, next_id, session, dispatched, done>>

\* create_user with the username of a row of users: the insert raises
CallCreateUserAgain(user_id) ==
    LET username == Row(users, user_id).username
        created == create_user(username, "alice@x.com", "secret1", "", FALSE)
    IN /\ run[Caller].pc = "idle"
       /\ users' = created.users
       /\ run' = [run EXCEPT ![Caller] =
                    [pc |-> "idle", call |-> "create_user", username |-> username,
                     ret |-> created.ret]]
       /\ UNCHANGED <<posts, comments, likes, next_id, session, dispatched, done>>

\* calls that fail, in a store that sample user 1 and a new user fill
NextFailures ==
    \/ CallCreateUser("alice", "alice@x.com", "secret1", "", FALSE)
    \/ CallCreatePost(1, "Hello", C50, "Technology", FALSE)
    \/ CallAddComment(1, 1, "nice", None, FALSE)
    \/ CallAddLike(1, 1, FALSE)
    \/ \E fn \in FailingCalls : CallFailing(fn)
    \/ \E user_id \in Ids(users) : CallCreateUserAgain(user_id)

SpecFailures == Init /\ [][NextFailures]_vars

\* the users functions called in any order with any arguments
NextUsers ==
    \/ \E username \in Usernames, email \in Emails, password \in Passwords,
          bio \in Bios, err \in BOOLEAN :
          CallCreateUser(username, email, password, bio, err)
    \/ \E user_id \in Ids(users), email \in Emails, bio \in Bios, err \in BOOLEAN :
          CallUpdateUserProfile(user_id, email, bio, err)

SpecUsers == Init /\ [][NextUsers]_vars

\* the posts functions called in any order; ids passed are ids of rows the
\* tables hold
NextPosts ==
    \/ \E user_id \in Ids(users), err \in BOOLEAN :
          CallCreatePost(user_id, "Hello", C50, "Technology", err)
    \/ \E post_id \in Ids(posts), text \in TextInputs, err \in BOOLEAN :
          CallUpdatePost(post_id, text[1], text[2], "Technology", err)
    \/ \E post_id \in Ids(posts), err_at \in 0..3 :
          CallDeletePost(post_id, err_at)
    \/ \E post_id \in Ids(posts), err \in BOOLEAN :
          CallIncrementSelect(post_id, err)
    \/ \E err \in BOOLEAN :
          CallIncrementUpdate(err)

SpecPosts == Init /\ [][NextPosts]_vars

\* add_comment and get_comments, get_comment_count by users who sign up, over
\* posts that are created and deleted; ids passed are ids of rows the tables
\* hold
NextComments ==
    \/ \E err \in BOOLEAN :
          CallCreateUser("alice", "alice@x.com", "secret1", "", err)
    \/ \E user_id \in Ids(users), err \in BOOLEAN :
          CallCreatePost(user_id, "Hello", C50, "Technology", err)
    \/ \E post_id \in Ids(posts), err_at \in 0..3 :
          CallDeletePost(post_id, err_at)
    \/ \E post_id \in Ids(posts), user_id \in Ids(users),
          parent_id \in Ids(comments) \cup {None}, err \in BOOLEAN :
          CallAddComment(post_id, user_id, "nice", parent_id, err)

SpecComments == Init /\ [][NextComments]_vars

\* add_like, remove_like and get_like_count, check_user_liked by users who
\* sign up, over posts that are created and deleted
NextLikes ==
    \/ \E err \in BOOLEAN :
          CallCreateUser("alice", "alice@x.com", "secret1", "", err)
    \/ \E user_id \in Ids(users), err \in BOOLEAN :
          CallCreatePost(user_id, "Hello", C50, "Technology", err)
    \/ \E post_id \in Ids(posts), err_at \in 0..3 :
          CallDeletePost(post_id, err_at)
    \/ \E post_id \in Ids(posts), user_id \in Ids(users), err \in BOOLEAN :
          CallAddLike(post_id, user_id, err)
    \/ \E post_id \in Ids(posts), user_id \in Ids(users), err \in BOOLEAN :
          CallRemoveLike(post_id, user_id, err)

SpecLikes == Init /\ [][NextLikes]_vars

\* delete_post over posts whose authors put root comments and likes on them
NextDelete ==
    \/ \E user_id \in Ids(users), err \in BOOLEAN :
          CallCreatePost(user_id, "Hello", C50, "Technology", err)
    \/ \E post_id \in Ids(posts), err_at \in 0..3 :
          CallDeletePost(post_id, err_at)
    \/ \E post \in posts, err \in BOOLEAN :
          CallAddComment(post.id, post.user_id, "nice", None, err)
    \/ \E post \in posts, err \in BOOLEAN :
          CallAddLike(post.id, post.user_id, err)

SpecDelete == Init /\ [][NextDelete]_vars

\* ------------------------------------------------------- the Streamlit app
\* Every widget event of a session starts one run of the script: sidebar,
\* then main(), then the page controller, in which the st.button of the
\* clicked widget returns True.  st.rerun() ends the run and starts a run
\* that no widget triggered.  Runs of different sessions interleave at the
\* store's round trips; a run is split where a claim needs it (between the
\* select and the update of increment_view_count).

\* str.strip() on the texts typed here
strip(text) == IF text \in {"", " "} THEN "" ELSE text
\* '@' in email
HasAt(email) == email \in {"alice@x.com", "john@example.com", "jane@example.com", "alex@example.com"}

\* session s takes ss as its state and its run ends, by st.rerun() or not
Finish(s, ss, rerun) ==
    /\ session' = [session EXCEPT ![s] = ss]
    /\ run' = [run EXCEPT ![s] = IF rerun THEN Rerun ELSE Idle]

\* a run starts: on a widget event of an idle session or after st.rerun()
Starts(s, event) ==
    \/ run[s].pc = "idle"
    \/ run[s].pc = "rerun" /\ event = NoEvent

\* sidebar buttons; each handler ends in st.rerun(), main() is not reached
Sidebar(s, button) ==
    /\ run[s].pc = "idle"
    /\ LET ss == session[s] IN
       /\ IF ss.logged_in
          THEN button \in {"Home", "Browse", "Create Post", "My Posts", "Profile", "Logout"}
          ELSE button = "Login / Signup"
       /\ Finish(s,
            CASE button = "Home" -> [ss EXCEPT !.page = "home", !.selected_post_id = None]
              [] button = "Browse" -> [ss EXCEPT !.page = "browse", !.selected_post_id = None]
              [] button = "Create Post" -> [ss EXCEPT !.page = "create"]
              [] button = "My Posts" -> [ss EXCEPT !.page = "my_posts"]
              [] button = "Profile" -> [ss EXCEPT !.page = "profile"]
              [] button = "Logout" -> [ss EXCEPT !.logged_in = FALSE, !.user_id = None,
                                                 !.username = NoName, !.email = NoName,
                                                 !.page = "home"]
              [] button = "Login / Signup" -> [ss EXCEPT !.page = "auth"],
            TRUE)
    /\ UNCHANGED <<users, posts, comments, likes, next_id, dispatched, done>>

\* the access guard with view_post among the public pages
main_guard_public_view(ss) ==
    IF ~ss.logged_in /\ ss.page \notin {"home", "browse", "auth", "view_post"}
    THEN [ss EXCEPT !.page = "home"]
    ELSE ss

\* main(), line 946-947: the access guard
main_guard(ss) ==
    IF ~ss.logged_in /\ ss.page \notin {"home", "browse", "auth"}
    THEN [ss EXCEPT !.page = "home"]
    ELSE ss

\* main(), line 949-979: the controller called for the (guarded) state
main_dispatch(ss) ==
    CASE ss.page = "home" -> "page_home"
      [] ss.page = "browse" -> "page_browse"
      [] ss.page = "create" -> IF ss.logged_in THEN "page_create" ELSE "warning"
      [] ss.page = "view_post" -> "page_view_post"
      [] ss.page = "my_posts" -> IF ss.logged_in THEN "page_my_posts" ELSE "warning"
      [] ss.page = "edit_post" -> IF ss.logged_in THEN "page_edit_post" ELSE "warning"
      [] ss.page = "profile" -> IF ss.logged_in THEN "page_profile" ELSE "warning"
      [] ss.page = "auth" -> "page_auth"
      [] OTHER -> "none"

\* main() up to the call of the controller
main(s, event, controller) ==
    /\ Starts(s, event)
    /\ main_dispatch(main_guard(session[s])) = controller
    /\ dispatched' = [dispatched EXCEPT ![s] =
                        [requested |-> session[s].page, controller |-> controller,
                         logged_in |-> session[s].logged_in]]

\* page_home and page_browse: a click on a listed post's title
page_home(s, event) ==
    LET ss == main_guard(session[s]) IN
    /\ IF event.widget = "post_title" /\ event.post_id \in Ids(Range(get_all_posts(FALSE)))
       THEN Finish(s, [ss EXCEPT !.selected_post_id = event.post_id, !.page = "view_post"], TRUE)
       ELSE Finish(s, ss, FALSE)
    /\ UNCHANGED <<users, posts, comments, likes, next_id, done>>

page_browse(s, event) == page_home(s, event)

\* page_create: the Publish Post button
page_create(s, event, err) ==
    LET ss == main_guard(session[s]) IN
    /\ Finish(s, ss, FALSE)
    /\ IF /\ event.widget = "publish"
          /\ strip(event.title) # ""
          /\ ~(strip(event.content) = "" \/ Len(event.content) < 50)
       THEN /\ next_id.posts > MaxPosts => err
            /\ posts' = create_post(ss.user_id, event.title, event.content, "Technology", err).posts
            /\ next_id' = IF err THEN next_id ELSE [next_id EXCEPT !.posts = @ + 1]
       ELSE UNCHANGED <<posts, next_id>>
    /\ UNCHANGED <<users, comments, likes, done>>

\* the text st.text_input returns on the run that first renders it
reply_text == ""

\* page_view_post after increment_view_count: Back, Like / Unlike, Post
\* Comment, Reply
view_post_widgets(s, ss, post_id, event) ==
    CASE event.widget = "back" ->
           /\ Finish(s, [ss EXCEPT !.selected_post_id = None, !.page = "home"], TRUE)
           /\ UNCHANGED <<likes, comments, next_id>>
      [] event.widget = "like" /\ ss.logged_in ->
           /\ Finish(s, ss, TRUE)
           /\ \E err1 \in BOOLEAN, err2 \in BOOLEAN :
                IF check_user_liked(post_id, ss.user_id, err1)
                THEN /\ likes' = remove_like(post_id, ss.user_id, err2).likes
                     /\ UNCHANGED next_id
                ELSE /\ next_id.likes > MaxLikes => err2
                     /\ likes' = add_like(post_id, ss.user_id, err2).likes
                     /\ next_id' = IF err2 THEN next_id ELSE [next_id EXCEPT !.likes = @ + 1]
           /\ UNCHANGED comments
      [] event.widget = "post_comment" /\ ss.logged_in ->
           IF strip(event.text) # ""
           THEN /\ Finish(s, ss, TRUE)
                /\ \E err \in BOOLEAN :
                     /\ next_id.comments > MaxComments => err
                     /\ comments' = add_comment(post_id, ss.user_id, event.text, None, err).comments
                     /\ next_id' = IF err THEN next_id ELSE [next_id EXCEPT !.comments = @ + 1]
                /\ UNCHANGED likes
           ELSE Finish(s, ss, FALSE) /\ UNCHANGED <<likes, comments, next_id>>
      [] /\ event.widget = "reply" /\ ss.logged_in
         /\ \E c \in Range(get_comments(post_id, FALSE)) : c.parent_id = None /\ c.id = event.comment_id ->
           IF strip(reply_text) # ""
           THEN /\ Finish(s, ss, TRUE)
                /\ \E err \in BOOLEAN :
                     /\ next_id.comments > MaxComments => err
                     /\ comments' = add_comment(post_id, ss.user_id, reply_text, event.comment_id, err).comments
                     /\ next_id' = IF err THEN next_id ELSE [next_id EXCEPT !.comments = @ + 1]
                /\ UNCHANGED likes
           ELSE Finish(s, ss, FALSE) /\ UNCHANGED <<likes, comments, next_id>>
      [] OTHER ->
           Finish(s, ss, FALSE) /\ UNCHANGED <<likes, comments, next_id>>

\* page_view_post up to the answer of increment_view_count's select
page_view_post(s, event) ==
    LET ss == main_guard(session[s]) IN
    /\ UNCHANGED <<users, posts, done>>
    /\ IF ss.selected_post_id = None
       THEN Finish(s, ss, FALSE) /\ UNCHANGED <<likes, comments, next_id>>
       ELSE \E err1 \in BOOLEAN, err2 \in BOOLEAN :
              LET post == get_post_by_id(ss.selected_post_id, err1) IN
              IF post.id = None
              THEN Finish(s, ss, FALSE) /\ UNCHANGED <<likes, comments, next_id>>
              ELSE LET response == increment_view_count_select(post.id, err2) IN
                   IF response.data
                   THEN /\ done[post.id] < MaxViews
                        /\ session' = [session EXCEPT ![s] = ss]
                        /\ run' = [run EXCEPT ![s] =
                                     [pc |-> "increment", post_id |-> post.id,
                                      current_views |-> response.current_views,
                                      event |-> event]]
                        /\ UNCHANGED <<likes, comments, next_id>>
                   ELSE view_post_widgets(s, ss, post.id, event)

\* page_view_post from increment_view_count's update to the end of the run
page_view_post_update(s, err) ==
    /\ run[s].pc = "increment"
    /\ posts' = increment_view_count_update(run[s].post_id, run[s].current_views, err)
    /\ done' = IF err THEN done ELSE [done EXCEPT ![run[s].post_id] = @ + 1]
    /\ view_post_widgets(s, session[s], run[s].post_id, run[s].event)
    /\ UNCHANGED <<users, dispatched>>

\* page_my_posts: View, Edit, Delete of one of the user's posts
page_my_posts(s, event, err_at) ==
    LET ss == main_guard(session[s])
        mine == Ids(Range(get_user_posts(ss.user_id, FALSE)))
    IN
    /\ UNCHANGED <<users, next_id, done>>
    /\ CASE event.widget = "view" /\ event.post_id \in mine ->
              /\ Finish(s, [ss EXCEPT !.selected_post_id = event.post_id, !.page = "view_post"], TRUE)
              /\ UNCHANGED <<posts, comments, likes>>
         [] event.widget = "edit" /\ event.post_id \in mine ->
              /\ Finish(s, [ss EXCEPT !.edit_post_id = event.post_id, !.page = "edit_post"], TRUE)
              /\ UNCHANGED <<posts, comments, likes>>
         [] event.widget = "delete" /\ event.post_id \in mine ->
              /\ Finish(s, ss, TRUE)
              /\ comments' = delete_post(event.post_id, err_at).comments
              /\ likes' = delete_post(event.post_id, err_at).likes
              /\ posts' = delete_post(event.post_id, err_at).posts
         [] OTHER ->
              Finish(s, ss, FALSE) /\ UNCHANGED <<posts, comments, likes>>

\* page_edit_post: Back, Save Changes
page_edit_post(s, event, err) ==
    LET ss == main_guard(session[s])
        post == get_post_by_id(ss.edit_post_id, FALSE)
    IN
    /\ UNCHANGED <<users, comments, likes, next_id, done>>
    /\ IF ss.edit_post_id = Unset \/ post.id = None
       THEN Finish(s, ss, FALSE) /\ UNCHANGED posts
       ELSE CASE event.widget = "back" ->
                   Finish(s, [ss EXCEPT !.page = "my_posts"], TRUE) /\ UNCHANGED posts
              [] event.widget = "save" ->
                   /\ posts' = update_post(post.id, event.title, event.content, post.category, err).posts
                   /\ IF update_post(post.id, event.title, event.content, post.category, err).ret
                      THEN Finish(s, [ss EXCEPT !.page = "my_posts"], TRUE)
                      ELSE Finish(s, ss, FALSE)
              [] OTHER ->
                   Finish(s, ss, FALSE) /\ UNCHANGED posts

\* a run of page_profile that ended with change_password returning ret
Returned(ret, old_password, new_password) ==
    [pc |-> "idle", change_password |-> ret,
     old_password |-> old_password, new_password |-> new_password]

\* page_profile: Save Profile, and Change Password up to the answer of
\* change_password's select
page_profile(s, event, err1, err2) ==
    LET ss == main_guard(session[s])
        user == get_user_by_id(ss.user_id, err1)
    IN
    /\ UNCHANGED <<posts, comments, likes, next_id, done>>
    /\ IF user.id = None
       THEN Finish(s, ss, FALSE) /\ UNCHANGED users
       ELSE CASE event.widget = "save_profile" ->
                   /\ users' = update_user_profile(ss.user_id, event.email, event.bio, err2).users
                   /\ IF update_user_profile(ss.user_id, event.email, event.bio, err2).ret
                      THEN Finish(s, [ss EXCEPT !.email = event.email], TRUE)
                      ELSE Finish(s, ss, FALSE)
              [] event.widget = "change_password" ->
                   /\ UNCHANGED users
                   /\ IF \/ event.old_pw = "" \/ event.new_pw = "" \/ event.confirm_pw = ""
                         \/ event.new_pw # event.confirm_pw
                         \/ Len(event.new_pw) < 6
                      THEN Finish(s, ss, FALSE)
                      ELSE /\ session' = [session EXCEPT ![s] = ss]
                           /\ run' = [run EXCEPT ![s] =
                                IF change_password_select(ss.user_id, event.old_pw, err2)
                                THEN [pc |-> "change_password", user_id |-> ss.user_id,
                                      old_password |-> event.old_pw,
                                      new_password |-> event.new_pw]
                                ELSE Returned(FALSE, event.old_pw, event.new_pw)]
              [] OTHER ->
                   Finish(s, ss, FALSE) /\ UNCHANGED users

\* page_profile from change_password's update to the end of the run
page_profile_update(s, err) ==
    /\ run[s].pc = "change_password"
    /\ users' = change_password_update(run[s].user_id, run[s].new_password, err).users
    /\ run' = [run EXCEPT ![s] =
                 Returned(change_password_update(run[s].user_id, run[s].new_password, err).ret,
                          run[s].old_password, run[s].new_password)]
    /\ UNCHANGED <<posts, comments, likes, next_id, session, dispatched, done>>

\* Login and Sign Up setting the flag and the names but not user_id
logged_in_as_without_id(ss, result) ==
    [ss EXCEPT !.logged_in = TRUE, !.username = result.username,
               !.email = result.email, !.page = "home"]

\* the session state Login and Sign Up leave for an authenticated record
logged_in_as(ss, result) ==
    [ss EXCEPT !.logged_in = TRUE, !.user_id = result.id, !.username = result.username,
               !.email = result.email, !.page = "home"]

\* page_auth: Login, Sign Up
page_auth(s, event, err1, err2) ==
    LET ss == main_guard(session[s]) IN
    /\ UNCHANGED <<posts, comments, likes, next_id, done>>
    /\ CASE event.widget = "login" ->
              /\ UNCHANGED users
              /\ IF event.username = "" \/ event.password = ""
                 THEN Finish(s, ss, FALSE)
                 ELSE LET result == authenticate_user(event.username, event.password, err1) IN
                      IF result.id # None
                      THEN Finish(s, logged_in_as(ss, result), TRUE)
                      ELSE Finish(s, ss, FALSE)
         [] event.widget = "signup" ->
              IF \/ event.username = "" \/ event.email = "" \/ event.password = ""
                 \/ Len(event.password) < 6
                 \/ event.password # event.confirm
                 \/ ~HasAt(event.email)
              THEN Finish(s, ss, FALSE) /\ UNCHANGED users
              ELSE LET created == create_user(event.username, event.email, event.password, event.bio, err1) IN
                   /\ Cardinality(users) >= MaxUsers => ~created.ret
                   /\ users' = created.users
                   /\ IF ~created.ret
                      THEN Finish(s, ss, FALSE)
                      ELSE LET result == authenticate_user(event.username, event.password, err2)' IN
                           IF result.id # None
                           THEN Finish(s, logged_in_as(ss, result), TRUE)
                           ELSE Finish(s, ss, FALSE)
         [] OTHER ->
              Finish(s, ss, FALSE) /\ UNCHANGED users

\* the widget events of each page
PostTitleEvents == {[widget |-> "post_title", post_id |-> p] : p \in 1..MaxPosts}
PublishEvents == {[widget |-> "publish", title |-> t, content |-> c] : t \in Titles, c \in Contents}
ViewPostEvents ==
    {[widget |-> "back"], [widget |-> "like"]}
    \cup {[widget |-> "post_comment", text |-> t] : t \in {"nice", " "}}
    \cup {[widget |-> "reply", comment_id |-> c] : c \in 1..MaxComments}
MyPostsEvents == {[widget |-> w, post_id |-> p] : w \in {"view", "edit", "delete"}, p \in 1..MaxPosts}
EditPostEvents ==
    {[widget |-> "back"]} \cup {[widget |-> "save", title |-> t[1], content |-> t[2]] : t \in TextInputs}
ProfileEvents ==
    {[widget |-> "save_profile", email |-> e, bio |-> "hello"] : e \in Emails}
    \cup {[widget |-> "change_password", old_pw |-> o, new_pw |-> n, confirm_pw |-> c] :
            o \in {"password123", "secret1", "wrong"},
            n \in {"secret1", "letmein", "wrong"},
            c \in {"secret1", "letmein"}}
AuthEvents ==
    {[widget |-> "login", username |-> u, password |-> p] : u \in Usernames \cup {""}, p \in Passwords}
    \cup {[widget |-> "signup", username |-> u, email |-> e, bio |-> "", password |-> p, confirm |-> c] :
            u \in Usernames, e \in Emails, p \in Passwords, c \in Passwords}

\* one run (or run segment) of the script in session s, by the controller
\* main() dispatches, on one of the given widget events or on none
StepSidebar(s, buttons) ==
    \E button \in buttons : Sidebar(s, button)
StepHome(s, events) ==
    \E event \in events \cup {NoEvent} :
        main(s, event, "page_home") /\ page_home(s, event)
StepBrowse(s, events) ==
    \E event \in events \cup {NoEvent} :
        main(s, event, "page_browse") /\ page_browse(s, event)
StepCreate(s, events) ==
    \E event \in events \cup {NoEvent}, err \in BOOLEAN :
        main(s, event, "page_create") /\ page_create(s, event, err)
StepViewPost(s, events) ==
    \E event \in events \cup {NoEvent} :
        main(s, event, "page_view_post") /\ page_view_post(s, event)
StepViewPostUpdate(s) ==
    \E err \in BOOLEAN : page_view_post_update(s, err)
StepMyPosts(s, events) ==
    \E event \in events \cup {NoEvent}, err_at \in 0..3 :
        main(s, event, "page_my_posts") /\ page_my_posts(s, event, err_at)
StepEditPost(s, events) ==
    \E event \in events \cup {NoEvent}, err \in BOOLEAN :
        main(s, event, "page_edit_post") /\ page_edit_post(s, event, err)
StepProfile(s, events) ==
    \E event \in events \cup {NoEvent}, err1 \in BOOLEAN, err2 \in BOOLEAN :
        main(s, event, "page_profile") /\ page_profile(s, event, err1, err2)
StepProfileUpdate(s) ==
    \E err \in BOOLEAN : page_profile_update(s, err)
StepAuth(s, events) ==
    \E event \in events \cup {NoEvent}, err1 \in BOOLEAN, err2 \in BOOLEAN :
        main(s, event, "page_auth") /\ page_auth(s, event, err1, err2)

SidebarButtons == {"Home", "Browse", "Create Post", "My Posts", "Profile", "Logout", "Login / Signup"}

LoginEvents == {e \in AuthEvents : e.widget = "login"}
BackEvents == {[widget |-> "back"]}

\* one visitor moving between the pages: every handler that writes the
\* session state (logged_in, user, page, selected_post_id, edit_post_id)
NextNavigation ==
    \/ StepSidebar("s1", SidebarButtons)
    \/ StepHome("s1", PostTitleEvents)
    \/ StepBrowse("s1", PostTitleEvents)
    \/ StepViewPost("s1", BackEvents)
    \/ StepViewPostUpdate("s1")
    \/ StepMyPosts("s1", {e \in MyPostsEvents : e.widget \in {"view", "edit"}})
    \/ StepEditPost("s1", EditPostEvents)
    \/ StepProfile("s1", {})
    \/ StepAuth("s1", AuthEvents)

SpecNavigation == Init /\ [][NextNavigation]_vars

\* one visitor who logs in or signs up, publishes posts and views posts
NextPublish ==
    \/ StepSidebar("s1", {"Home", "Create Post", "Logout", "Login / Signup"})
    \/ StepHome("s1", PostTitleEvents)
    \/ StepCreate("s1", PublishEvents)
    \/ StepViewPost("s1", BackEvents)
    \/ StepViewPostUpdate("s1")
    \/ StepAuth("s1", AuthEvents)

SpecPublish == Init /\ [][NextPublish]_vars

\* several visitors at once, who log in and view posts
NextViewer(s) ==
    \/ StepSidebar(s, {"Home", "Login / Signup"})
    \/ StepHome(s, PostTitleEvents)
    \/ StepViewPost(s, BackEvents)
    \/ StepViewPostUpdate(s)
    \/ StepAuth(s, LoginEvents)

NextViewers == \E s \in Sessions : NextViewer(s)

SpecViewers == Init /\ [][NextViewers]_vars

\* several visitors at once, who log in, view posts and edit their posts
NextAuthor(s) ==
    \/ StepSidebar(s, {"Home", "My Posts", "Login / Signup"})
    \/ StepHome(s, PostTitleEvents)
    \/ StepViewPost(s, BackEvents)
    \/ StepViewPostUpdate(s)
    \/ StepMyPosts(s, {e \in MyPostsEvents : e.widget = "edit"})
    \/ StepEditPost(s, EditPostEvents)
    \/ StepAuth(s, LoginEvents)

NextAuthors == \E s \in Sessions : NextAuthor(s)

SpecAuthors == Init /\ [][NextAuthors]_vars

\* one visitor who logs in, publishes posts and edits them
NextWriter ==
    \/ StepSidebar("s1", {"Create Post", "My Posts", "Login / Signup"})
    \/ StepHome("s1", {})
    \/ StepCreate("s1", PublishEvents)
    \/ StepMyPosts("s1", {e \in MyPostsEvents : e.widget = "edit"})
    \/ StepEditPost("s1", EditPostEvents)
    \/ StepAuth("s1", LoginEvents)

SpecWriter == Init /\ [][NextWriter]_vars

\* one browser session used by john_doe and by alice, one after the other:
\* they log in and out, publish, edit and delete posts
OwnerEvents ==
    {[widget |-> "login", username |-> "john_doe", password |-> "password123"],
     [widget |-> "login", username |-> "alice", password |-> "secret1"],
     [widget |-> "signup", username |-> "alice", email |-> "alice@x.com", bio |-> "",
      password |-> "secret1", confirm |-> "secret1"]}

NextOwners ==
    \/ StepSidebar("s1", {"Create Post", "My Posts", "Logout", "Login / Signup"})
    \/ StepHome("s1", {})
    \/ StepCreate("s1", {e \in PublishEvents : e.title = "Hello" /\ e.content = C50})
    \/ StepMyPosts("s1", {e \in MyPostsEvents : e.widget \in {"edit", "delete"}})
    \/ StepEditPost("s1", EditPostEvents)
    \/ StepAuth("s1", OwnerEvents)

SpecOwners == Init /\ [][NextOwners]_vars

\* one browser session, used by john_doe and by alice who signs up: they
\* log in and out, view post 1 with every widget of the view page, and view
\* or delete it from My Posts
NextVisitor ==
    \/ StepSidebar("s1", {"Home", "My Posts", "Logout", "Login / Signup"})
    \/ StepHome("s1", {e \in PostTitleEvents : e.post_id = 1})
    \/ StepViewPost("s1", ViewPostEvents)
    \/ StepViewPostUpdate("s1")
    \/ StepMyPosts("s1", {e \in MyPostsEvents : e.post_id = 1 /\ e.widget # "edit"})
    \/ StepAuth("s1", {e \in OwnerEvents : e.username = "alice" => e.widget = "signup"})

SpecVisitor == Init /\ [][NextVisitor]_vars

\* several sessions at once, whose users log in and use their profile page
NextProfile(s) ==
    \/ StepSidebar(s, {"Profile", "Login / Signup"})
    \/ StepHome(s, {})
    \/ StepProfile(s, ProfileEvents)
    \/ StepProfileUpdate(s)
    \/ StepAuth(s, LoginEvents)

NextProfiles == \E s \in Sessions : NextProfile(s)

SpecProfiles == Init /\ [][NextProfiles]_vars

\* ------------------------------------------------------------------ claims
\* C1: when create_user(u, email, p) returns True, then in the state it
\* leaves authenticate_user(u, p) returns a record whose username is u, and
\* authenticate_user(u, p2) returns None for every password p2 whose digest
\* differs from that of p (the store answering the select).
C1_CreateThenAuthenticate ==
    [][\A username \in Usernames, email \in Emails, password \in Passwords,
         bio \in Bios, err \in BOOLEAN :
         (/\ CallCreateUser(username, email, password, bio, err)
          /\ create_user(username, email, password, bio, err).ret)
         => /\ (authenticate_user(username, password, FALSE).username = username)'
            /\ \A p2 \in Passwords :
                  hash_password(p2) # hash_password(password)
                  => (authenticate_user(username, p2, FALSE) = NoUser)']_vars

\* a user created by create_user("alice", _, "secret1") logs in with
\* "secret1" and is refused with "wrong"
C1_Witness ==
    \E u \in users :
        /\ u.id > SampleUserCount
        /\ u.username = "alice"
        /\ u.password = hash_password("secret1")
        /\ authenticate_user("alice", "secret1", FALSE).username = "alice"
        /\ authenticate_user("alice", "wrong", FALSE) = NoUser

\* C2: increment_view_count calls made one after another by a single caller
\* (no other writer in between): after N calls on a post that went through,
\* its stored views is N more than the 0 it was created with, and every
\* other post's views is what its own calls made it.
C2_SequentialIncrements ==
    \A p \in posts : p.views = done[p.id]

C2_Witness ==
    \E p \in posts, q \in posts :
        p.id # q.id /\ done[p.id] = 2 /\ p.views = 2 /\ done[q.id] = 0 /\ q.views = 0

\* C4: when delete_post(p) returns True, then in the state it leaves no
\* comment row and no like row has post_id = p, get_comments(p) is empty
\* and get_like_count(p) is 0, and the comments and likes of the other
\* posts are the same rows as before.
C4_DeleteCascades ==
    [][\A post_id \in 1..MaxPosts, err_at \in 0..3 :
         (CallDeletePost(post_id, err_at) /\ delete_post(post_id, err_at).ret)
         => /\ (\A c \in comments : c.post_id # post_id)'
            /\ (\A l \in likes : l.post_id # post_id)'
            /\ (get_comments(post_id, FALSE) = <<>>)'
            /\ (get_like_count(post_id, FALSE) = 0)'
            /\ {c \in comments' : c.post_id # post_id} = {c \in comments : c.post_id # post_id}
            /\ {l \in likes' : l.post_id # post_id} = {l \in likes : l.post_id # post_id}]_vars

\* a post is gone, a comment and a like went with it, and a comment and a
\* like of another post are still there
C4_Witness ==
    /\ \E post_id \in 1..MaxPosts : post_id < next_id.posts /\ post_id \notin Ids(posts)
    /\ comments # {} /\ Cardinality(comments) < next_id.comments - 1
    /\ likes # {} /\ next_id.likes = 3 /\ Cardinality(likes) = 1
    /\ \A c \in comments : c.post_id \in Ids(posts)
    /\ \A l \in likes : l.post_id \in Ids(posts)

\* C5: every add_comment that returns an id makes get_comments of its post
\* one longer, and raises get_comment_count of the post by one exactly when
\* its parent_id is None: replies are returned but never counted.
C5_RootCountOnly ==
    [][\A post_id \in 1..MaxPosts, user_id \in 1..MaxUsers,
         parent_id \in 0..MaxComments, err \in BOOLEAN :
         (/\ CallAddComment(post_id, user_id, "nice", parent_id, err)
          /\ add_comment(post_id, user_id, "nice", parent_id, err).ret # None)
         => /\ Len(get_comments(post_id, FALSE))' = Len(get_comments(post_id, FALSE)) + 1
            /\ get_comment_count(post_id, FALSE)' =
                 get_comment_count(post_id, FALSE) + (IF parent_id = None THEN 1 ELSE 0)
            /\ (get_comment_count(post_id, FALSE) =
                  Cardinality({c \in Range(get_comments(post_id, FALSE)) : c.parent_id = None}))'
       ]_vars

\* root comment C1 and its reply R1: get_comments returns both, the count is 1
C5_Witness ==
    \E c1 \in comments, r1 \in comments :
        /\ c1.parent_id = None /\ r1.parent_id = c1.id /\ r1.post_id = c1.post_id
        /\ Len(get_comments(c1.post_id, FALSE)) = 2
        /\ get_comment_count(c1.post_id, FALSE) = 1

\* C6: every add_like that returns True inserts a row, whether or not the
\* user already likes the post: get_like_count of the post goes up by one.
C6_NoLikeUniqueness ==
    [][\A post_id \in 1..MaxPosts, user_id \in 1..MaxUsers, err \in BOOLEAN :
         (CallAddLike(post_id, user_id, err) /\ add_like(post_id, user_id, err).ret)
         => get_like_count(post_id, FALSE)' = get_like_count(post_id, FALSE) + 1]_vars

\* two like rows of one user on one post, counted as 2
C6_Witness ==
    \E a \in likes, b \in likes :
        /\ a.id # b.id /\ a.post_id = b.post_id /\ a.user_id = b.user_id
        /\ get_like_count(a.post_id, FALSE) = 2

\* C3: the stored views of a post never goes down, whatever step any
\* session takes.
C3_ViewsNeverDecrease ==
    [][\A p \in posts : \A q \in posts' : q.id = p.id => q.views >= p.views]_vars

\* C7: a post that create_post inserts is in get_all_posts with views 0, and
\* once one increment_view_count of the view-post page has gone through for
\* it, its stored views is 1.
C7_PublishThenView ==
    /\ [][\A q \in posts' :
            q.id \notin Ids(posts)
            => q.views = 0 /\ q \in Range(get_all_posts(FALSE))']_vars
    /\ [](\A p \in posts : p.id > SamplePostCount /\ done[p.id] = 1 => p.views = 1)

\* a post published through page_create, viewed once through page_view_post
C7_Witness ==
    \E p \in posts :
        /\ p.id > SamplePostCount /\ done[p.id] = 1 /\ p.views = 1
        /\ dispatched["s1"].controller = "page_view_post"
        /\ session["s1"].selected_post_id = p.id
        /\ run["s1"].pc = "idle"

\* C8: whenever main() runs in a session that is not logged in, it calls
\* page_home, page_browse or page_auth and none of the other controllers;
\* when the page asked for is not home, browse or auth, it calls page_home
\* and the run leaves page = 'home'.
C8_GuardRedirectsHome ==
    \A s \in Sessions :
        LET d == dispatched[s] IN
        (d.controller # "none" /\ ~d.logged_in)
        => /\ d.controller \in {"page_home", "page_browse", "page_auth"}
           /\ d.requested \notin {"home", "browse", "auth"}
              => /\ d.controller = "page_home"
                 /\ run[s].pc = "idle" => session[s].page = "home"

\* a logged-out session asked for view_post and was given the home page
C8_Witness ==
    \E s \in Sessions :
        /\ dispatched[s] = [requested |-> "view_post", controller |-> "page_home", logged_in |-> FALSE]
        /\ run[s].pc = "idle"
        /\ session[s].page = "home"

\* C9: login is required only for create, edit_post, my_posts and profile:
\* when a session that is not logged in has page = 'view_post' (set by a
\* click on a post title), main() calls page_view_post.
C9_ViewPostIsPublic ==
    \A s \in Sessions :
        LET d == dispatched[s] IN
        (~d.logged_in /\ d.requested = "view_post") => d.controller = "page_view_post"

\* C10: the update of increment_view_count writes the value its select read
\* plus one, whatever the row holds by then, so the stored views never
\* exceeds, and can fall short of, the number of increments that went through.
C10_ReadThenWrite ==
    /\ [][\A s \in Sessions :
            (/\ run[s].pc = "increment"
             /\ run'[s].pc # "increment"
             /\ done'[run[s].post_id] = done[run[s].post_id] + 1)
            => \A q \in posts' :
                 q.id = run[s].post_id => q.views = run[s].current_views + 1]_vars
    /\ [](\A p \in posts : p.views <= done[p.id])

\* two increments of one post went through and its views is 1: both read 0
C10_Witness ==
    \E p \in posts : done[p.id] = 2 /\ p.views = 1 /\ \A s \in Sessions : run[s].pc = "idle"

\* C11: change_password goes on to its update only when the digest its
\* select reads equals the digest of the old password; a call that returns
\* True has written the digest of its new password, and a call that returns
\* False leaves the users table as it was.
C11_CheckThenWrite ==
    [][\A s \in Sessions :
         /\ (run[s].pc # "change_password" /\ run'[s].pc = "change_password")
            => /\ Row(users, run'[s].user_id).password = hash_password(run'[s].old_password)
               /\ users' = users
         /\ (run'[s] # run[s] /\ run'[s].pc = "idle" /\ "change_password" \in DOMAIN run'[s])
            => IF run'[s].change_password
               THEN /\ run[s].pc = "change_password"
                    /\ Row(users', run[s].user_id).password = hash_password(run'[s].new_password)
               ELSE users' = users]_vars

\* lost update: both sessions' change_password calls were given the same
\* correct old password and different new ones, both returned True, and the
\* stored digest is that of one of them
C11_Witness ==
    /\ run["s1"] = Returned(TRUE, "password123", "secret1")
    /\ run["s2"] = Returned(TRUE, "password123", "letmein")
    /\ Row(users, 1).password = hash_password("secret1")

\* rows of comments or likes whose post_id is the id of no post row
Orphans == {r \in comments \cup likes : r.post_id \notin Ids(posts)}

\* C12: delete_post deletes from comments, then likes, then posts.  When
\* the k-th delete raises, the deletes before it are done and those from it
\* on are not: the call returns False, the post row is still there, and no
\* comment or like row is left without its post.
C12_PartialDeleteKeepsPost ==
    /\ [][\A post_id \in 1..MaxPosts, err_at \in 1..3 :
            CallDeletePost(post_id, err_at)
            => /\ ~delete_post(post_id, err_at).ret
               /\ posts' = posts
               /\ comments' = IF err_at > 1 THEN {c \in comments : c.post_id # post_id}
                              ELSE comments
               /\ likes' = IF err_at > 2 THEN {l \in likes : l.post_id # post_id}
                           ELSE likes]_vars
    /\ [](Orphans = {})

\* delete_post stopped between its delete on comments and its delete on
\* likes: no post was ever removed, the comments are gone, a like is left
C12_Witness ==
    /\ Ids(posts) = 1..(next_id.posts - 1)
    /\ comments = {} /\ next_id.comments > 1
    /\ likes # {}
    /\ Orphans = {}

\* C12 as stated: a delete_post that stops after its first or second delete,
\* on a post that has comments and likes, leaves a comment or like row
\* whose post is gone.
C12_PartialDeleteOrphans ==
    [][\A post_id \in 1..MaxPosts, err_at \in 2..3 :
         (/\ CallDeletePost(post_id, err_at)
          /\ \E c \in comments : c.post_id = post_id
          /\ \E l \in likes : l.post_id = post_id)
         => (Orphans # {})']_vars

C14_StoredPostsValid ==
    \A p \in posts : strip(p.title) # "" /\ Len(p.content) >= 50

\* C15: for every post, the comments page_view_post renders are the
\* comments of the post without a parent, in ascending order of creation,
\* each followed by the comments of the post whose parent it is; a comment
\* whose parent is itself a reply is in get_comments but not rendered; no
\* comment is rendered twice.
C15_RootsThenReplies ==
    \A post_id \in 1..MaxPosts :
        LET listed == get_comments(post_id, FALSE)
            r == rendered_comments(post_id)
            roots == {c \in Range(listed) : c.parent_id = None}
        IN /\ SelectSeq(r, LAMBDA c : c.parent_id = None) = Ascending(roots)
           /\ Range(r) = roots \cup {c \in Range(listed) : c.parent_id \in Ids(roots)}
           /\ Len(r) = Cardinality(Range(r))
           /\ \A i \in 1..Len(r) :
                 r[i].parent_id # None
                 => \E j \in 1..(i - 1) :
                       /\ r[j].id = r[i].parent_id
                       /\ \A k \in (j + 1)..i : r[k].parent_id = r[j].id
                       /\ \A k \in (j + 1)..(i - 1) : r[k].id < r[k + 1].id
           /\ \A c \in Range(listed) :
                 (\E q \in comments : q.id = c.parent_id /\ q.parent_id # None)
                 => c \notin Range(r)

\* a post with a comment, a reply to it and a reply to the reply:
\* get_comments returns the three, the page shows the first two
C15_Witness ==
    \E a \in comments, b \in comments, c \in comments :
        /\ a.parent_id = None /\ b.parent_id = a.id /\ c.parent_id = b.id
        /\ a.post_id = b.post_id /\ b.post_id = c.post_id
        /\ Len(get_comments(a.post_id, FALSE)) = 3
        /\ rendered_comments(a.post_id) = <<a, b>>

\* C16: every session starts logged out on page 'home'.  In every state
\* logged_in is True exactly when user_id and username are not None, and
\* then they are the id and username of a users row.  The step that logs a
\* session in leaves page = 'home', and so does the step that logs it out.
C16_IdentityMatchesFlag ==
    /\ \A s \in Sessions : ~session[s].logged_in /\ session[s].page = "home"
    /\ [](\A s \in Sessions :
            LET ss == session[s] IN
            /\ ss.logged_in <=> (ss.user_id # None /\ ss.username # NoName)
            /\ ~ss.logged_in => (ss.user_id = None /\ ss.username = NoName /\ ss.email = NoName)
            /\ ss.logged_in
               => \E u \in users : u.id = ss.user_id /\ u.username = ss.username)
    /\ [][\A s \in Sessions :
            session[s].logged_in # session'[s].logged_in => session'[s].page = "home"]_vars

\* john_doe logged in and opened one of his posts for editing, logged out,
\* and alice signed up in the same session
C16_Witness ==
    /\ session["s1"].logged_in
    /\ session["s1"].username = "alice"
    /\ session["s1"].user_id > SampleUserCount
    /\ session["s1"].edit_post_id # Unset

\* C17: whenever a step of the session rewrites or removes a post row, the
\* session is logged in and the row's user_id is the session's user_id at
\* that time; and whenever the session is on the edit page, the post that
\* edit_post_id names belongs to the session's user.
C17_OwnPostsOnly ==
    /\ [][\A p \in posts :
            p \notin posts'
            => session["s1"].logged_in /\ p.user_id = session["s1"].user_id]_vars
    /\ [](\A s \in Sessions :
            (/\ session[s].logged_in
             /\ session[s].page = "edit_post"
             /\ session[s].edit_post_id \in Ids(posts))
            => Row(posts, session[s].edit_post_id).user_id = session[s].user_id)

\* john_doe edited and saved his post 1 and logged out; alice, logged in to
\* the same session with a post of her own, holds the stale edit_post_id 1
C17_Witness ==
    /\ session["s1"].logged_in
    /\ session["s1"].username = "alice"
    /\ session["s1"].page = "my_posts"
    /\ session["s1"].edit_post_id = 1
    /\ \E p \in posts : p.id = 1 /\ p.user_id # session["s1"].user_id /\ p.title = "Hello"
    /\ \E p \in posts : p.user_id = session["s1"].user_id

\* C18: a step that a session takes while it is not logged in leaves the
\* posts (view counts included), comments and likes tables as they are.
C18_LoggedOutWritesNothing ==
    [][~session["s1"].logged_in
       => posts' = posts /\ comments' = comments /\ likes' = likes]_vars

\* a session that is not logged in has signed alice up (the insert went
\* through, the login that follows did not) and is still on the auth page
C18_Witness ==
    /\ ~session["s1"].logged_in
    /\ session["s1"].page = "auth"
    /\ dispatched["s1"].controller = "page_auth"
    /\ session["s1"].edit_post_id = Unset
    /\ \A p \in 1..MaxPosts : done[p] = 0
    /\ \E u \in users : u.username = "alice"

\* C19: for every post and user there is at most one like row, whatever
\* Like / Unlike clicks the users made, each through one session at a time.
C19_AtMostOneLike ==
    \A post_id \in 1..MaxPosts, user_id \in 1..MaxUsers :
        Cardinality({l \in likes : l.post_id = post_id /\ l.user_id = user_id}) <= 1

====
